---- MODULE Spec2Model ----
\* Kobuta: the schema description parser (src/src/schema.rs, schema::parse and
\* the Column helpers) and the Int32 scalar codec (impl Parse for i32).
\*
\* Text is modelled as a sequence of characters, each character a one-character
\* string; every character of the model is ASCII, so a byte offset and a
\* character offset coincide.
EXTENDS Integers, Sequences, FiniteSets, TLC

\* ---------------------------------------------------------------- bounds

\* An arbitrary schema text is the concatenation of at most MaxChunks chunks.
MaxChunks == 4
\* A grammar-generated schema text has between 1 and MaxCols columns.
MaxCols == 2
\* Whitespace runs put at the grammar's trim points are at most MaxWs long.
MaxWs == 1
\* Whitespace runs put around a whole schema text are at most MaxPad long.
MaxPad == 1

\* ---------------------------------------------------------------- literals

FLOAT32 == <<"F", "l", "o", "a", "t", "3", "2">>
INT32 == <<"I", "n", "t", "3", "2">>
NULLABLE == <<"N", "u", "l", "l", "a", "b", "l", "e">>
SEPARATOR == ","

LIT_TYPES ==
    << [literal |-> FLOAT32, datatype |-> "Float32"],
       [literal |-> INT32, datatype |-> "Int32"] >>

DataType == {"Float32", "Int32"}

Column == [dtype : DataType, nullable : BOOLEAN]

\* ---------------------------------------------------------------- results

KbtError == [ok |-> FALSE, err |-> "KbtError"]

Ok(v) == [ok |-> TRUE, val |-> v]

None == [some |-> FALSE]

Some(v) == [some |-> TRUE, val |-> v]

\* ---------------------------------------------------------------- str helpers

\* char::is_whitespace, on the two whitespace characters of the model.
is_whitespace(c) == c \in {" ", "\t"}

RECURSIVE trim_left(_)
trim_left(s) ==
    IF s # <<>> /\ is_whitespace(Head(s)) THEN trim_left(Tail(s)) ELSE s

RECURSIVE trim_right(_)
trim_right(s) ==
    IF s # <<>> /\ is_whitespace(s[Len(s)])
    THEN trim_right(SubSeq(s, 1, Len(s) - 1))
    ELSE s

\* trim that forgets the leading whitespace.
trim_only_right(s) == trim_right(s)

trim(s) == trim_right(trim_left(s))

starts_with(s, literal) ==
    Len(s) >= Len(literal) /\ SubSeq(s, 1, Len(literal)) = literal

is_empty(s) == s = <<>>

\* string[n..]
slice_from(s, n) == SubSeq(s, n + 1, Len(s))

\* ---------------------------------------------------------------- Column

\* parse_single_datatype that forgets to trim after the literal.
parse_single_datatype_no_trim(string, literal, datatype) ==
    IF starts_with(string, literal)
    THEN Some([dtype |-> datatype, rest |-> slice_from(string, Len(literal))])
    ELSE None

parse_single_datatype(string, literal, datatype) ==
    IF starts_with(string, literal)
    THEN Some([dtype |-> datatype,
               rest |-> trim_left(slice_from(string, Len(literal)))])
    ELSE None

\* parse_datatype that falls back to Float32 when no literal matches.
parse_datatype_or_default(string) ==
    LET tried == [i \in 1..Len(LIT_TYPES) |->
                    parse_single_datatype(string, LIT_TYPES[i].literal,
                                          LIT_TYPES[i].datatype)]
        found == SelectSeq(tried, LAMBDA r : r.some)
    IN  IF found = <<>>
        THEN Ok([dtype |-> "Float32", rest |-> trim_left(string)])
        ELSE Ok(Head(found).val)

\* filter_map over LIT_TYPES in order, the first hit, or KbtError.
parse_datatype(string) ==
    LET tried == [i \in 1..Len(LIT_TYPES) |->
                    parse_single_datatype(string, LIT_TYPES[i].literal,
                                          LIT_TYPES[i].datatype)]
        found == SelectSeq(tried, LAMBDA r : r.some)
    IN  IF found = <<>> THEN KbtError ELSE Ok(Head(found).val)

\* parse_nullable that forgets both of its trims.
parse_nullable_no_trim(string) ==
    IF starts_with(string, NULLABLE)
    THEN [nullable |-> TRUE, rest |-> slice_from(string, Len(NULLABLE))]
    ELSE [nullable |-> FALSE, rest |-> string]

parse_nullable(string) ==
    IF starts_with(string, NULLABLE)
    THEN [nullable |-> TRUE,
          rest |-> trim_left(slice_from(string, Len(NULLABLE)))]
    ELSE [nullable |-> FALSE, rest |-> trim_left(string)]

\* Column::parse
Column_parse(string) ==
    LET dt == parse_datatype(string)
    IN  IF ~dt.ok THEN KbtError
        ELSE LET nl == parse_nullable(dt.val.rest)
             IN  Ok([column |-> [dtype |-> dt.val.dtype,
                                 nullable |-> nl.nullable],
                     leftover |-> nl.rest])

\* ---------------------------------------------------------------- separator

Panic == [ok |-> FALSE, err |-> "panic"]

\* parse_separator that lets a missing separator pass.
parse_separator_lenient(string) ==
    IF is_empty(string) THEN Panic
    ELSE IF string[1] = SEPARATOR
         THEN Ok(trim_left(slice_from(string, 1)))
         ELSE Ok(trim_left(string))

\* string.as_bytes()[0] panics on the empty string (index out of bounds).
parse_separator(string) ==
    IF is_empty(string) THEN Panic
    ELSE IF string[1] = SEPARATOR
         THEN Ok(trim_left(slice_from(string, 1)))
         ELSE KbtError

\* ---------------------------------------------------------------- schema::parse

\* The outcome of schema::parse: Ok(columns), Err(KbtError) or a panic.
Running == [kind |-> "Running"]

ResOk(cols) == [kind |-> "Ok", columns |-> cols]

ResErr == [kind |-> "Err"]

ResPanic == [kind |-> "Panic"]

FromErr(r) == IF r = Panic THEN ResPanic ELSE ResErr

\* The loop of schema::parse from the top of an iteration, as a function.
RECURSIVE parse_loop(_, _)
parse_loop(leftover_, columns_) ==
    LET got == Column_parse(leftover_)
    IN  IF ~got.ok THEN ResErr
        ELSE LET cols == Append(columns_, got.val.column)
             IN  IF is_empty(got.val.leftover) THEN ResOk(cols)
                 ELSE LET sep == parse_separator(got.val.leftover)
                      IN  IF ~sep.ok THEN FromErr(sep)
                          ELSE parse_loop(sep.val, cols)

parse(text) == parse_loop(trim(text), <<>>)

\* ---------------------------------------------------------------- state

VARIABLES
    string,        \* the schema text handed to schema::parse
    gen,           \* how the text was produced: NoGen, or the columns and whitespace it was rendered from
    leftover,      \* parse: let mut leftover
    rest,          \* parse: result.1, the text left after the last column parsed
    columns,       \* parse: let mut columns
    pc,            \* position in schema::parse
    result,        \* what schema::parse returned
    value,         \* the i32 handed to Parse::write
    output,        \* the output buffer
    remainder,     \* the slice Parse::write returned
    write_result,  \* what Parse::write returned
    parse_result,  \* what Parse::parse returned
    cpc            \* position in the codec scenario

vars == << string, gen, leftover, rest, columns, pc, result,
           value, output, remainder, write_result, parse_result, cpc >>

schema_vars == << string, gen, leftover, rest, columns, pc, result >>

codec_vars == << value, output, remainder, write_result, parse_result, cpc >>

\* ---------------------------------------------------------------- inputs

WS == {" ", "\t"}

RECURSIVE WsStrings(_)
WsStrings(n) ==
    IF n = 0 THEN {<< >>}
    ELSE LET shorter == WsStrings(n - 1)
         IN  shorter \cup {Append(w, c) : w \in shorter, c \in WS}

Chunks ==
    { FLOAT32, INT32, NULLABLE, <<SEPARATOR>>, <<" ">>, <<"\t">>,
      <<"F", "l", "o", "a", "t", "3", "3">>,
      <<"n", "u", "l", "l", "a", "b", "l", "e">> }

RECURSIVE Texts(_)
Texts(n) ==
    IF n = 0 THEN {<< >>}
    ELSE LET shorter == Texts(n - 1)
         IN  shorter \cup {t \o c : t \in shorter, c \in Chunks}

RECURSIVE ColumnLists(_)
ColumnLists(n) ==
    IF n = 0 THEN {<< >>}
    ELSE LET shorter == ColumnLists(n - 1)
         IN  shorter \cup {Append(cs, c) : cs \in shorter, c \in Column}

NoGen == [generated |-> FALSE]

Generated ==
    { [generated |-> TRUE, cols |-> cs, before |-> b, afterType |-> t,
       afterNullable |-> n] :
        cs \in ColumnLists(MaxCols) \ {<< >>},
        b \in WsStrings(MaxWs), t \in WsStrings(MaxWs), n \in WsStrings(MaxWs) }

TypeLiteral(dtype) == IF dtype = "Float32" THEN FLOAT32 ELSE INT32

\* column := type_literal [ 'Nullable' ], with whitespace at the trim points.
RenderColumn(g, c) ==
    g.before \o TypeLiteral(c.dtype) \o g.afterType
        \o (IF c.nullable THEN NULLABLE \o g.afterNullable ELSE << >>)

\* schema := column ( ',' column )*
RECURSIVE RenderColumns(_, _)
RenderColumns(g, cs) ==
    IF Len(cs) = 1 THEN RenderColumn(g, cs[1])
    ELSE RenderColumns(g, SubSeq(cs, 1, Len(cs) - 1))
            \o <<SEPARATOR>> \o RenderColumn(g, cs[Len(cs)])

Render(g) == RenderColumns(g, g.cols)

\* Some separator of the rendered text has whitespace right before it.
WsBeforeSeparator(g) ==
    \E i \in 1..(Len(g.cols) - 1) :
        IF g.cols[i].nullable THEN g.afterNullable # << >>
        ELSE g.afterType # << >>

\* ---------------------------------------------------------------- schema::parse, step by step

CodecIdle ==
    /\ value = 0
    /\ output = << >>
    /\ remainder = << >>
    /\ write_result = Running
    /\ parse_result = Running
    /\ cpc = "idle"

Init ==
    /\ gen \in {NoGen} \cup Generated
    /\ string \in (IF gen = NoGen THEN Texts(MaxChunks) ELSE {Render(gen)})
    /\ leftover = << >>
    /\ rest = << >>
    /\ columns = << >>
    /\ pc = "start"
    /\ result = Running
    /\ CodecIdle

\* parse that tests for the empty text before the first column.
ParseEntry_empty_is_ok ==
    /\ pc = "start"
    /\ leftover' = trim(string)
    /\ columns' = << >>
    /\ IF is_empty(leftover')
       THEN pc' = "done" /\ result' = ResOk(columns')
       ELSE pc' = "column" /\ result' = result
    /\ UNCHANGED << string, gen, rest >>
    /\ UNCHANGED codec_vars

\* let mut leftover = string.trim(); let mut columns = vec![];
ParseEntry ==
    /\ pc = "start"
    /\ leftover' = trim(string)
    /\ columns' = << >>
    /\ pc' = "column"
    /\ UNCHANGED << string, gen, rest, result >>
    /\ UNCHANGED codec_vars

\* The loop body without its break on the empty rest.
ParseColumn_no_break ==
    /\ pc = "column"
    /\ LET got == Column_parse(leftover)
       IN  IF ~got.ok
           THEN /\ pc' = "done"
                /\ result' = ResErr
                /\ UNCHANGED << columns, rest >>
           ELSE /\ columns' = Append(columns, got.val.column)
                /\ rest' = got.val.leftover
                /\ pc' = "separator"
                /\ result' = result
    /\ UNCHANGED << string, gen, leftover >>
    /\ UNCHANGED codec_vars

\* let result = Column::parse(leftover)?; columns.push(result.0);
\* if result.1.is_empty() { break };
ParseColumn ==
    /\ pc = "column"
    /\ LET got == Column_parse(leftover)
       IN  IF ~got.ok
           THEN /\ pc' = "done"
                /\ result' = ResErr
                /\ UNCHANGED << columns, rest >>
           ELSE /\ columns' = Append(columns, got.val.column)
                /\ rest' = got.val.leftover
                /\ IF is_empty(rest')
                   THEN pc' = "done" /\ result' = ResOk(columns')
                   ELSE pc' = "separator" /\ result' = result
    /\ UNCHANGED << string, gen, leftover >>
    /\ UNCHANGED codec_vars

\* The loop body that drops the text parse_separator returns.
ParseSeparator_no_advance ==
    /\ pc = "separator"
    /\ LET sep == parse_separator(rest)
       IN  IF ~sep.ok
           THEN /\ pc' = "done"
                /\ result' = FromErr(sep)
                /\ UNCHANGED leftover
           ELSE /\ leftover' = leftover
                /\ pc' = "column"
                /\ result' = result
    /\ UNCHANGED << string, gen, rest, columns >>
    /\ UNCHANGED codec_vars

\* leftover = parse_separator(result.1)?;
ParseSeparator ==
    /\ pc = "separator"
    /\ LET sep == parse_separator(rest)
       IN  IF ~sep.ok
           THEN /\ pc' = "done"
                /\ result' = FromErr(sep)
                /\ UNCHANGED leftover
           ELSE /\ leftover' = sep.val
                /\ pc' = "column"
                /\ result' = result
    /\ UNCHANGED << string, gen, rest, columns >>
    /\ UNCHANGED codec_vars

Next == ParseEntry \/ ParseColumn \/ ParseSeparator

Spec == Init /\ [][Next]_vars

\* ---------------------------------------------------------------- properties of schema::parse

Done == pc = "done"

NoTypeLiteral(s) == ~starts_with(s, FLOAT32) /\ ~starts_with(s, INT32)

\* C1: every schema text rendered from the grammar (one or more columns, each a
\* type literal optionally followed by Nullable, joined by ',', whitespace at
\* the trim points) parses to Ok with exactly the columns it was rendered from,
\* in order.
C1_GrammarTextsParse ==
    (Done /\ gen.generated) => result = ResOk(gen.cols)

C1_Witness ==
    /\ Done
    /\ gen.generated
    /\ Len(gen.cols) = 2
    /\ gen.cols[1].nullable /\ ~gen.cols[2].nullable
    /\ gen.cols[1].dtype # gen.cols[2].dtype
    /\ gen.afterType # << >>
    /\ result = ResOk(gen.cols)

\* C2: when the text at the start of a column position begins with neither
\* 'Float32' nor 'Int32', schema::parse returns Err(KbtError) from that position.
C2_UnknownTypeLiteralIsErr ==
    [][(pc = "column" /\ NoTypeLiteral(leftover))
            => (pc' = "done" /\ result' = ResErr)]_vars

\* The trailing-comma case: a column was parsed, the separator consumed, and the
\* next column position is the empty text.
C2_Witness ==
    /\ Done
    /\ result = ResErr
    /\ Len(columns) >= 1
    /\ leftover = << >>
    /\ NoTypeLiteral(leftover)

\* C3: when a column has been parsed and the text left is non-empty and does
\* not begin with ',', schema::parse returns Err(KbtError).
C3_MissingSeparatorIsErr ==
    [][(pc = "separator" /\ rest # << >> /\ Head(rest) # SEPARATOR)
            => (pc' = "done" /\ result' = ResErr)]_vars

\* 'Float32 nullable' and 'Float32 Int32': one column parsed, then a letter
\* where the separator has to be.
C3_Witness ==
    /\ Done
    /\ result = ResErr
    /\ Len(columns) = 1
    /\ ~NoTypeLiteral(leftover)
    /\ rest # << >>
    /\ Head(rest) \in {"n", "I"}

Pads == WsStrings(MaxPad)

\* C4: whitespace before and after the whole schema text never changes the
\* outcome of schema::parse.
C4_OuterWhitespaceIgnored ==
    Done => \A w1 \in Pads, w2 \in Pads : parse(w1 \o string \o w2) = result

C4_Witness ==
    /\ Done
    /\ result.kind = "Ok"
    /\ string # << >>
    /\ ~is_whitespace(Head(string))
    /\ parse(<<" ">> \o string \o <<"\t">>) = result

\* C5: an Ok result of schema::parse holds at least one column, and the empty
\* text and every whitespace-only text are rejected with Err(KbtError).
C5_SchemaNeverEmpty ==
    Done => /\ result.kind = "Ok" => Len(result.columns) >= 1
            /\ (\A i \in 1..Len(string) : is_whitespace(string[i]))
                    => result = ResErr

C5_Witness ==
    /\ Done
    /\ Len(string) >= 1
    /\ \A i \in 1..Len(string) : is_whitespace(string[i])
    /\ result = ResErr
    /\ columns = << >>

\* C8 as stated: a schema text with whitespace right before a separator fails.
C8_WhitespaceBeforeSeparatorFails ==
    (Done /\ gen.generated /\ WsBeforeSeparator(gen)) => result = ResErr

\* C8 as amended: the text handed to parse_separator never starts with
\* whitespace (it was trimmed after the type literal and after Nullable), so
\* the separator is its very first byte or parsing fails; whitespace between
\* the end of a column and the following separator is therefore tolerated and
\* such a text parses to its columns.
C8_SeparatorFollowsTrimmedColumn ==
    /\ pc = "separator" => (rest # << >> /\ ~is_whitespace(Head(rest)))
    /\ (Done /\ gen.generated /\ WsBeforeSeparator(gen))
            => result = ResOk(gen.cols)

C8_Witness ==
    /\ Done
    /\ gen.generated
    /\ Len(gen.cols) = 2
    /\ gen.cols[1].nullable
    /\ gen.afterNullable # << >>
    /\ gen.before = << >>
    /\ result = ResOk(gen.cols)

\* C9: every iteration of the loop of schema::parse either returns or goes on
\* with a text strictly shorter than the one it started with, and the number of
\* columns emitted never exceeds the length of the input.
C9_LoopConsumesInput ==
    [][/\ (pc = "separator" /\ pc' = "column") => Len(leftover') < Len(leftover)
       /\ (pc = "column" /\ pc' = "separator") => Len(rest') < Len(leftover)
       /\ Len(columns') <= Len(string)]_vars

C9_Witness ==
    /\ Done
    /\ Len(columns) >= 2
    /\ result.kind = "Ok"

\* C10: parse_separator is only ever called with a non-empty text, so
\* schema::parse never panics: it returns Ok or Err(KbtError).
C10_SeparatorNeverPanics ==
    /\ pc = "separator" => ~is_empty(rest)
    /\ result # ResPanic
    /\ Done => result.kind \in {"Ok", "Err"}

C10_Witness ==
    /\ pc = "separator"
    /\ ~is_empty(rest)
    /\ Len(columns) >= 1

\* The step-by-step run and the function agree on every input.
StepsAgreeWithFunction == Done => result = parse(string)

\* ---------------------------------------------------------------- Int32 scalar codec

\* The output buffer is at most MaxBuf bytes long.
MaxBuf == 12
\* Besides the boundary values, every i32 in -MaxSmall..MaxSmall is written.
MaxSmall == 12

I32_MAX == 2147483647
I32_MIN == -I32_MAX - 1
RADIX == 10

\* The byte the buffer is filled with before the call.
NUL == "NUL"

DIGITS == <<"0", "1", "2", "3", "4", "5", "6", "7", "8", "9">>

digit_char(d) == DIGITS[d + 1]

is_digit(c) == \E d \in 0..(RADIX - 1) : digit_char(d) = c

to_digit(c) == CHOOSE d \in 0..(RADIX - 1) : digit_char(d) = c

min(a, b) == IF a <= b THEN a ELSE b

\* The decimal digits of n >= 0.
RECURSIVE format_unsigned(_)
format_unsigned(n) ==
    IF n < RADIX THEN << digit_char(n) >>
    ELSE Append(format_unsigned(n \div RADIX), digit_char(n % RADIX))

\* The decimal digits of the magnitude of n <= 0, computed without negating n
\* (the magnitude of I32_MIN is not an i32).
RECURSIVE format_magnitude(_)
format_magnitude(n) ==
    LET d == (RADIX - (n % RADIX)) % RADIX
        q == (n + d) \div RADIX
    IN  IF q = 0 THEN << digit_char(d) >>
        ELSE Append(format_magnitude(q), digit_char(d))

\* The text itoa renders for an i32: an optional '-' and the decimal digits.
itoa_format(v) ==
    IF v < 0 THEN <<"-">> \o format_magnitude(v) ELSE format_unsigned(v)

\* <&mut [u8] as io::Write>::write_all: copies as many bytes as fit to the
\* front of the slice, and fails unless all of them fitted.
write_all(wr, data) ==
    LET amt == min(Len(data), Len(wr))
        buffer == SubSeq(data, 1, amt) \o slice_from(wr, amt)
    IN  [ok |-> amt = Len(data), buffer |-> buffer]

\* itoa::write(wr, value): renders, write_all()s the text, returns its length.
itoa_write(wr, v) ==
    LET text == itoa_format(v)
        w == write_all(wr, text)
    IN  [ok |-> w.ok, bytes |-> Len(text), buffer |-> w.buffer]

\* write that drops the error of itoa::write.
i32_write_ignoring_error(v, out) ==
    LET w == itoa_write(out, v)
        bytes == min(w.bytes, Len(out))
    IN  [result |-> Ok(slice_from(w.buffer, bytes)), output |-> w.buffer]

\* <i32 as Parse>::write
i32_write(v, out) ==
    LET w == itoa_write(out, v)
    IN  IF ~w.ok THEN [result |-> KbtError, output |-> w.buffer]
        ELSE [result |-> Ok(slice_from(w.buffer, w.bytes)),
              output |-> w.buffer]

\* checked_mul(10) then checked_add(d), on an accumulator that is >= 0.
RECURSIVE accumulate_positive(_, _)
accumulate_positive(acc, digits) ==
    IF digits = << >> THEN Ok(acc)
    ELSE IF ~is_digit(Head(digits)) THEN KbtError
    ELSE LET d == to_digit(Head(digits))
         IN  IF acc > I32_MAX \div RADIX THEN KbtError
             ELSE IF acc * RADIX > I32_MAX - d THEN KbtError
             ELSE accumulate_positive(acc * RADIX + d, Tail(digits))

\* checked_mul(10) then checked_sub(d), on an accumulator that is <= 0.
RECURSIVE accumulate_negative(_, _)
accumulate_negative(acc, digits) ==
    IF digits = << >> THEN Ok(acc)
    ELSE IF ~is_digit(Head(digits)) THEN KbtError
    ELSE LET d == to_digit(Head(digits))
         IN  IF acc < -(I32_MAX \div RADIX) THEN KbtError
             ELSE IF acc * RADIX < I32_MIN + d THEN KbtError
             ELSE accumulate_negative(acc * RADIX - d, Tail(digits))

\* i32::from_str_radix(src, 10): an optional sign, then one or more digits.
from_str_radix(src) ==
    IF is_empty(src) THEN KbtError
    ELSE LET is_positive == Head(src) # "-"
             digits == IF Head(src) \in {"+", "-"} THEN Tail(src) ELSE src
         IN  IF is_empty(digits) THEN KbtError
             ELSE IF is_positive THEN accumulate_positive(0, digits)
             ELSE accumulate_negative(0, digits)

\* parse that reads the magnitude as a positive i32 and negates it.
i32_parse_negating(bytes) ==
    IF is_empty(bytes) THEN KbtError
    ELSE IF Head(bytes) = "-"
    THEN LET m == accumulate_positive(0, Tail(bytes))
         IN  IF is_empty(Tail(bytes)) \/ ~m.ok THEN KbtError ELSE Ok(-m.val)
    ELSE from_str_radix(bytes)

\* <i32 as Parse>::parse
i32_parse(bytes) == from_str_radix(bytes)

I32Samples ==
    { I32_MIN, I32_MIN + 1, -1000000000, -999999999, -100, -99,
      99, 100, 999999999, 1000000000, I32_MAX - 1, I32_MAX }
        \cup (-MaxSmall..MaxSmall)

SchemaIdle ==
    /\ string = << >>
    /\ gen = NoGen
    /\ leftover = << >>
    /\ rest = << >>
    /\ columns = << >>
    /\ pc = "idle"
    /\ result = Running

CodecInit ==
    /\ value \in I32Samples
    /\ output \in {[i \in 1..n |-> NUL] : n \in 0..MaxBuf}
    /\ remainder = << >>
    /\ write_result = Running
    /\ parse_result = Running
    /\ cpc = "write"
    /\ SchemaIdle

\* value.write(&mut output)
Write ==
    /\ cpc = "write"
    /\ LET w == i32_write(value, output)
       IN  /\ output' = w.output
           /\ write_result' = w.result
           /\ remainder' = IF w.result.ok THEN w.result.val ELSE << >>
           /\ cpc' = IF w.result.ok THEN "written" ELSE "end"
    /\ UNCHANGED << value, parse_result >>
    /\ UNCHANGED schema_vars

\* The bytes written: the part of the buffer that is not in the remainder.
Written == SubSeq(output, 1, Len(output) - Len(remainder))

\* i32::parse of the text just written
ReadBack ==
    /\ cpc = "written"
    /\ parse_result' = i32_parse(Written)
    /\ cpc' = "end"
    /\ UNCHANGED << value, output, remainder, write_result >>
    /\ UNCHANGED schema_vars

CodecNext == Write \/ ReadBack

CodecSpec == CodecInit /\ [][CodecNext]_vars

OneByteShort == Len(output) = Len(itoa_format(value)) - 1

\* C6 as stated: with a buffer one byte shorter than the rendered text, write
\* returns an error and no part of the rendering is left in the buffer.
C6_ShortBufferLeftUntouched ==
    (cpc # "write" /\ OneByteShort)
        => /\ write_result = KbtError
           /\ \A i \in 1..Len(output) : output[i] = NUL

\* C6 as amended: with a buffer one byte shorter than the rendered text, write
\* returns Err(KbtError) and never a remainder; the buffer is left holding the
\* leading bytes of the rendering that fitted.
C6_ShortBufferIsErr ==
    (cpc # "write" /\ OneByteShort)
        => /\ write_result = KbtError
           /\ cpc = "end"
           /\ output = SubSeq(itoa_format(value), 1, Len(output))

C6_Witness ==
    /\ cpc = "end"
    /\ OneByteShort
    /\ value = I32_MIN
    /\ write_result = KbtError
    /\ output[1] = "-"

====
